---- MODULE Spec2Model ----
(***************************************************************************)
(* ClinicHub appointment API: createAppointment, updateAppointment,        *)
(* cancelAppointment (appointmentController.js), createVisitReport         *)
(* (analyticsController.js), the Appointment schema with its partial       *)
(* unique index (models/appointment.js) and the route guards               *)
(* (routes/appointmentRoutes.js, middleware/auth.js).                      *)
(*                                                                         *)
(* Spec, SchedSpec, ControllerSpec and CreateCancelSpec handle one request *)
(* at a time.  In ConcSpec every handler is cut at the awaits that touch   *)
(* the appointment collection: the part up to and including the read       *)
(* (Begin) and the write (Commit); requests between the two sit in         *)
(* `pending`.  CreateUpdateSpec and CreateDeleteSpec pair create with one   *)
(* other handler; ReadSpec adds getAppointments and getAppointmentById;    *)
(* in NotifySpec the handlers are also cut at the awaited audit write and  *)
(* emails that follow the write.  TimeSpec applies timeToMinutes to the    *)
(* text of times of day; FormatSpec, FrameSpec and MoveSpec are sequential *)
(* runs with the requests their properties speak about; RaceSpec is        *)
(* ConcSpec without updates; SocketSpec adds the socket server's           *)
(* connection, join_room, leave_room and disconnect handlers.              *)
(***************************************************************************)
EXTENDS Integers, Sequences, FiniteSets, Bags, TLC

VARIABLES
    appts,      \* the Appointment collection: a sequence, _id = position
    reports,    \* the VisitReport collection: set of appointment ids with a report
    pending,    \* requests in flight, past their read and before their write: a bag
    resp,       \* the last response sent
    fx,         \* what the request of that response attempted after its write, in
                \* the order of the code: audit writes, emails, socket emits
    data,       \* the ids of the appointments in the body of that response
    rooms,      \* socket.io room membership: connected socket -> set of rooms
    received,   \* appointment events delivered to sockets: <<socket, user, event>>
                \* with user the principal whose room the event was emitted to
    calc        \* a call of timeToMinutes on a literal time string: [timeStr, minutes]

vars == <<appts, reports, pending, resp, fx, data, rooms, received, calc>>

----------------------------------------------------------------------------
(* Values *)

NULL == "null"          \* undefined / absent field
NaN == -1000000         \* JavaScript NaN (Number("abc"), undefined arithmetic)

\* Bounds
MaxAppts == 1           \* stored appointments (Spec)
MaxSched == 2           \* stored appointments (SchedSpec)
MaxConc == 2            \* stored appointments (ConcSpec)
MaxPending == 2         \* requests in flight at once (ConcSpec)
MaxRead == 2            \* stored appointments (ReadSpec)
MaxNotify == 1          \* stored appointments (NotifySpec)
MaxCalls == 2           \* requests in flight at once (NotifySpec)

\* The User collection (registration is outside the model): id -> role
Patients == {"p1", "p2"}
Doctors == {"d1", "d2"}
Admins == {"a1"}
Users == Patients \cup Doctors \cup Admins
NoUser == "x9"          \* a well-formed id that names no user

Role(u) ==
    IF u \in Patients THEN "patient"
    ELSE IF u \in Doctors THEN "doctor"
    ELSE IF u \in Admins THEN "admin"
    ELSE NULL

\* models/appointment.js: status enum
Statuses == {"scheduled", "confirmed", "in-progress", "completed", "cancelled", "no-show"}
\* the statuses the conflict query and the partial index leave out
Inactive == {"cancelled", "no-show"}

----------------------------------------------------------------------------
(* Time-of-day strings.  A string is lexed into its tokens by a table       *)
(* (timeStr.split(" "), time.split(":").map(Number)); the arithmetic on the *)
(* tokens is timeToMinutes' own.                                           *)

TimeParts(t) ==
    CASE t = "10:00"    -> [hours |-> 10, minutes |-> 0, period |-> NULL]
      [] t = "10:15"    -> [hours |-> 10, minutes |-> 15, period |-> NULL]
      [] t = "10:30"    -> [hours |-> 10, minutes |-> 30, period |-> NULL]
      [] t = "10:00 AM" -> [hours |-> 10, minutes |-> 0, period |-> "AM"]
      [] t = "10:00 am" -> [hours |-> 10, minutes |-> 0, period |-> "am"]
      [] t = "12:10 AM" -> [hours |-> 12, minutes |-> 10, period |-> "AM"]
      [] t = "12:10 PM" -> [hours |-> 12, minutes |-> 10, period |-> "PM"]
      [] t = "2:30 PM"  -> [hours |-> 2, minutes |-> 30, period |-> "PM"]
      [] t = "2:30 pm"  -> [hours |-> 2, minutes |-> 30, period |-> "pm"]
      [] t = "14:30"    -> [hours |-> 14, minutes |-> 30, period |-> NULL]
      [] t = "14:45"    -> [hours |-> 14, minutes |-> 45, period |-> NULL]
      [] t = "25:00"    -> [hours |-> 25, minutes |-> 0, period |-> NULL]
      [] t = "13:00 PM" -> [hours |-> 13, minutes |-> 0, period |-> "PM"]
      [] t = "abc"      -> [hours |-> NaN, minutes |-> NaN, period |-> NULL]
      [] OTHER          -> [hours |-> NaN, minutes |-> NaN, period |-> NULL]

toUpperCase(p) ==
    CASE p \in {"am", "Am", "aM"} -> "AM"
      [] p \in {"pm", "Pm", "pM"} -> "PM"
      [] OTHER -> p

\* NaN-propagating arithmetic and NaN-false comparisons
Plus(a, b) == IF a = NaN \/ b = NaN THEN NaN ELSE a + b
Lt(a, b) == a # NaN /\ b # NaN /\ a < b
Le(a, b) == a # NaN /\ b # NaN /\ a <= b
Gt(a, b) == Lt(b, a)
Ge(a, b) == Le(b, a)

\* PM without the test hours !== 12
timeToMinutesNoNoon(parts) ==
    LET h0 == parts.hours
        h1 == IF parts.period # NULL /\ h0 # NaN
                 /\ toUpperCase(parts.period) = "PM"
              THEN h0 + 12 ELSE h0
        h2 == IF parts.period # NULL /\ h1 # NaN
                 /\ toUpperCase(parts.period) = "AM" /\ h1 = 12
              THEN 0 ELSE h1
    IN IF h2 = NaN \/ parts.minutes = NaN THEN NaN ELSE h2 * 60 + parts.minutes

\* lines 62-67 on the tokens [hours, minutes, period]
timeToMinutesOf(parts) ==
    LET h0 == parts.hours
        h1 == IF parts.period # NULL /\ h0 # NaN
                 /\ toUpperCase(parts.period) = "PM" /\ h0 # 12
              THEN h0 + 12 ELSE h0
        h2 == IF parts.period # NULL /\ h1 # NaN
                 /\ toUpperCase(parts.period) = "AM" /\ h1 = 12
              THEN 0 ELSE h1
    IN IF h2 = NaN \/ parts.minutes = NaN THEN NaN ELSE h2 * 60 + parts.minutes

timeToMinutes(timeStr) == timeToMinutesOf(TimeParts(timeStr))

----------------------------------------------------------------------------
(* timeToMinutes on literal text.  A text is a sequence of one-character   *)
(* strings; split, Number and the destructuring of lines 60-61 are         *)
(* computed on it.                                                         *)

Digits == <<"0", "1", "2", "3", "4", "5", "6", "7", "8", "9">>

\* String.prototype.split(sep) for a one-character separator
RECURSIVE split(_, _)
split(s, sep) ==
    IF \A i \in DOMAIN s : s[i] # sep THEN <<s>>
    ELSE LET i == CHOOSE k \in DOMAIN s :
                      s[k] = sep /\ \A l \in 1..(k - 1) : s[l] # sep
         IN <<SubSeq(s, 1, i - 1)>> \o split(SubSeq(s, i + 1, Len(s)), sep)

\* Number(token) for tokens of digits and letters: "" is 0, a token with a
\* character that is no digit is NaN
RECURSIVE Number(_)
Number(tok) ==
    IF tok = <<>> THEN 0
    ELSE LET last == tok[Len(tok)]
             rest == Number(SubSeq(tok, 1, Len(tok) - 1))
         IN IF rest = NaN \/ \A d \in DOMAIN Digits : Digits[d] # last THEN NaN
            ELSE rest * 10 + (CHOOSE d \in DOMAIN Digits : Digits[d] = last) - 1

\* the period token as a string; "" and undefined are falsy (line 62)
Word(chars) ==
    CASE chars = <<>> -> NULL
      [] chars = <<"A", "M">> -> "AM"
      [] chars = <<"a", "m">> -> "am"
      [] chars = <<"A", "m">> -> "Am"
      [] chars = <<"a", "M">> -> "aM"
      [] chars = <<"P", "M">> -> "PM"
      [] chars = <<"p", "m">> -> "pm"
      [] chars = <<"P", "m">> -> "Pm"
      [] chars = <<"p", "M">> -> "pM"
      [] OTHER -> "other"

\* const [time, period] = timeStr.split(" ");
\* let [hours, minutes] = time.split(":").map(Number);
TextParts(text) ==
    LET bySpace == split(text, " ")
        byColon == split(bySpace[1], ":")
    IN [hours |-> Number(byColon[1]),
        minutes |-> IF Len(byColon) >= 2 THEN Number(byColon[2]) ELSE NaN,
        period |-> IF Len(bySpace) >= 2 THEN Word(bySpace[2]) ELSE NULL]

timeToMinutesText(text) == timeToMinutesOf(TextParts(text))

\* duration || 30 : an omitted duration is <<>>, a supplied one <<n>>
DurationOrDefault(d) == IF d = <<>> THEN 30 ELSE IF d[1] = 0 THEN 30 ELSE d[1]

----------------------------------------------------------------------------
(* Dates.  new Date(str) is an instant; instants are counted in hours from  *)
(* 2025-06-01T00:00Z.  The calendar date of an instant is its UTC day.      *)

newDate(s) ==
    CASE s = "2025-06-01" -> 0
      [] s = "2025-06-01T00:00:00.000Z" -> 0
      [] s = "2025-06-01T12:00:00.000Z" -> 12
      [] s = "2025-06-02" -> 24
      [] OTHER -> NaN

CalendarDay(instant) == instant \div 24

----------------------------------------------------------------------------
(* The Appointment collection *)

Ids(store) == 1..Len(store)

\* findById
Exists(store, id) == id \in Ids(store)

Active(a) == a.status \notin Inactive

\* models/appointment.js: unique index on (doctor, appointmentDate, appointmentTime)
\* with partialFilterExpression status $nin [cancelled, no-show].  True when
\* writing `doc` as document `self` (0 for an insert) would raise E11000.
DuplicateKey(store, doc, self) ==
    /\ Active(doc)
    /\ \E j \in Ids(store) :
        /\ j # self
        /\ Active(store[j])
        /\ store[j].doctor = doc.doctor
        /\ store[j].appointmentDate = doc.appointmentDate
        /\ store[j].appointmentTime = doc.appointmentTime

\* An optional value: <<>> (not modified) or <<v>>
Set(old, new) == IF new = old THEN <<>> ELSE <<new>>
Apply(old, m) == IF m = <<>> THEN old ELSE m[1]

NoMods ==
    [appointmentDate |-> <<>>, appointmentTime |-> <<>>, status |-> <<>>,
     notes |-> <<>>, cancelReason |-> <<>>, cancelledBy |-> <<>>, cancelledAt |-> <<>>]

\* document.save(): $set of the modified paths on the stored document
ApplyMods(a, m) ==
    [a EXCEPT !.appointmentDate = Apply(@, m.appointmentDate),
              !.appointmentTime = Apply(@, m.appointmentTime),
              !.status = Apply(@, m.status),
              !.notes = Apply(@, m.notes),
              !.cancelReason = Apply(@, m.cancelReason),
              !.cancelledBy = Apply(@, m.cancelledBy),
              !.cancelledAt = Apply(@, m.cancelledAt)]

\* save() of document `id` with modified paths m: "ok", "noop" (nothing modified,
\* no write is sent), "validation" (status outside the enum) or "E11000"
SaveResult(store, id, m) ==
    IF m = NoMods THEN "noop"
    ELSE IF m.status # <<>> /\ m.status[1] \notin Statuses THEN "validation"
    ELSE IF DuplicateKey(store, ApplyMods(store[id], m), id) THEN "E11000"
    ELSE "ok"

\* a save that writes the modified paths whatever validation and index say
SavedUnchecked(store, id, m) == [store EXCEPT ![id] = ApplyMods(@, m)]

Saved(store, id, m) ==
    IF SaveResult(store, id, m) = "ok"
    THEN [store EXCEPT ![id] = ApplyMods(@, m)]
    ELSE store

----------------------------------------------------------------------------
(* middleware/auth.js *)

authorize(roles, user) == Role(user) \in roles

----------------------------------------------------------------------------
(* createAppointment *)

\* lines 86-92
hasOverlap(requestedStartTime, requestedEndTime, existingStartTime, existingEndTime) ==
    \/ Ge(requestedStartTime, existingStartTime) /\ Lt(requestedStartTime, existingEndTime)
    \/ Gt(requestedEndTime, existingStartTime) /\ Le(requestedEndTime, existingEndTime)
    \/ Le(requestedStartTime, existingStartTime) /\ Ge(requestedEndTime, existingEndTime)

\* lines 74-78: Appointment.find({doctor, appointmentDate: new Date(..), status $nin})
existingAppointments(store, doctorId, appointmentDate) ==
    {j \in Ids(store) :
        /\ store[j].doctor = doctorId
        /\ store[j].appointmentDate = newDate(appointmentDate)
        /\ Active(store[j])}

\* lines 70-100: the stored appointments the loop finds overlapping
Conflicting(store, r) ==
    LET requestedStartTime == timeToMinutes(r.appointmentTime)
        requestedEndTime == Plus(requestedStartTime, DurationOrDefault(r.duration))
    IN {j \in existingAppointments(store, r.doctorId, r.appointmentDate) :
           LET existingStartTime == timeToMinutes(store[j].appointmentTime)
               existingEndTime == Plus(existingStartTime, store[j].duration)
           IN hasOverlap(requestedStartTime, requestedEndTime,
                         existingStartTime, existingEndTime)}

\* lines 44-54
createPatientId(r) ==
    IF Role(r.user) = "admin" /\ r.patientId # NULL THEN r.patientId ELSE r.user

\* the checks with the conflict loop run before the patient lookup
CreateChecksConflictFirst(store, r) ==
    IF ~authorize({"patient", "admin"}, r.user) THEN "Forbidden403"
    ELSE IF r.doctorId = NULL \/ r.appointmentDate = NULL
            \/ r.appointmentTime = NULL \/ r.reason = NULL THEN "Required400"
    ELSE IF Role(r.doctorId) # "doctor" THEN "DoctorNotFound404"
    ELSE IF newDate(r.appointmentDate) = NaN THEN "Error500"
    ELSE IF Conflicting(store, r) # {} THEN "Conflict409"
    ELSE IF Role(r.user) = "admin" /\ r.patientId # NULL /\ Role(r.patientId) # "patient"
         THEN "PatientNotFound404"
    ELSE "ok"

\* route guard and lines 26-100, in the order of the code
CreateChecks(store, r) ==
    IF ~authorize({"patient", "admin"}, r.user) THEN "Forbidden403"
    ELSE IF r.doctorId = NULL \/ r.appointmentDate = NULL
            \/ r.appointmentTime = NULL \/ r.reason = NULL THEN "Required400"
    ELSE IF Role(r.doctorId) # "doctor" THEN "DoctorNotFound404"
    ELSE IF Role(r.user) = "admin" /\ r.patientId # NULL /\ Role(r.patientId) # "patient"
         THEN "PatientNotFound404"
    ELSE IF newDate(r.appointmentDate) = NaN THEN "Error500"
    ELSE IF Conflicting(store, r) # {} THEN "Conflict409"
    ELSE "ok"

\* lines 103-110 and the schema defaults
NewAppointment(r) ==
    [patient |-> createPatientId(r),
     doctor |-> r.doctorId,
     appointmentDate |-> newDate(r.appointmentDate),
     appointmentTime |-> r.appointmentTime,
     duration |-> DurationOrDefault(r.duration),
     reason |-> r.reason,
     status |-> "scheduled",
     notes |-> NULL,
     cancelReason |-> NULL,
     cancelledBy |-> NULL,
     cancelledAt |-> NULL]

----------------------------------------------------------------------------
(* updateAppointment *)

\* the checks without the doctor's ownership test of lines 285-293
UpdateChecksNoOwner(store, r) ==
    IF ~authorize({"admin", "doctor"}, r.user) THEN "Forbidden403"
    ELSE IF ~Exists(store, r.id) THEN "NotFound404"
    ELSE "ok"

\* the checks followed by the conflict loop of create on the moved appointment
UpdateChecksWithConflict(store, r) ==
    IF ~authorize({"admin", "doctor"}, r.user) THEN "Forbidden403"
    ELSE IF ~Exists(store, r.id) THEN "NotFound404"
    ELSE IF Role(r.user) = "doctor" /\ store[r.id].doctor # r.user THEN "AccessDenied403"
    ELSE LET time == IF r.appointmentTime = NULL THEN store[r.id].appointmentTime
                     ELSE r.appointmentTime
             date == IF r.appointmentDate = NULL THEN store[r.id].appointmentDate
                     ELSE newDate(r.appointmentDate)
             start == timeToMinutes(time)
             end == Plus(start, store[r.id].duration)
         IN IF \E j \in Ids(store) :
                  /\ j # r.id
                  /\ Active(store[j])
                  /\ store[j].doctor = store[r.id].doctor
                  /\ store[j].appointmentDate = date
                  /\ hasOverlap(start, end, timeToMinutes(store[j].appointmentTime),
                                Plus(timeToMinutes(store[j].appointmentTime),
                                     store[j].duration))
            THEN "Conflict409"
            ELSE "ok"

\* route guard and lines 275-293
UpdateChecks(store, r) ==
    IF ~authorize({"admin", "doctor"}, r.user) THEN "Forbidden403"
    ELSE IF ~Exists(store, r.id) THEN "NotFound404"
    ELSE IF Role(r.user) = "doctor" /\ store[r.id].doctor # r.user THEN "AccessDenied403"
    ELSE "ok"

\* lines 298-319: the paths the assignments mark modified on the document read
UpdateMods(a, r) ==
    [NoMods EXCEPT
        !.appointmentDate = IF r.appointmentDate = NULL THEN <<>>
                            ELSE Set(a.appointmentDate, newDate(r.appointmentDate)),
        !.appointmentTime = IF r.appointmentTime = NULL THEN <<>>
                            ELSE Set(a.appointmentTime, r.appointmentTime),
        !.status = IF r.status = NULL THEN <<>> ELSE Set(a.status, r.status),
        !.notes = IF r.notes = NULL THEN <<>> ELSE Set(a.notes, r.notes)]

----------------------------------------------------------------------------
(* cancelAppointment *)

\* the checks without the already-cancelled test of lines 416-421
CancelChecksNoAlready(store, r) ==
    IF ~Exists(store, r.id) THEN "NotFound404"
    ELSE IF /\ \/ Role(r.user) = "patient" /\ store[r.id].patient # r.user
               \/ Role(r.user) = "doctor" /\ store[r.id].doctor # r.user
            /\ Role(r.user) # "admin" THEN "AccessDenied403"
    ELSE "ok"

\* the checks without the ownership test of lines 401-414
CancelChecksNoOwner(store, r) ==
    IF ~Exists(store, r.id) THEN "NotFound404"
    ELSE IF store[r.id].status = "cancelled" THEN "AlreadyCancelled400"
    ELSE "ok"

\* lines 392-421
CancelChecks(store, r) ==
    IF ~Exists(store, r.id) THEN "NotFound404"
    ELSE IF /\ \/ Role(r.user) = "patient" /\ store[r.id].patient # r.user
               \/ Role(r.user) = "doctor" /\ store[r.id].doctor # r.user
            /\ Role(r.user) # "admin" THEN "AccessDenied403"
    ELSE IF store[r.id].status = "cancelled" THEN "AlreadyCancelled400"
    ELSE "ok"

\* a cancel that also clears the notes
CancelModsClearNotes(a, r) ==
    [NoMods EXCEPT
        !.status = Set(a.status, "cancelled"),
        !.notes = Set(a.notes, NULL),
        !.cancelReason = Set(a.cancelReason, r.cancelReason),
        !.cancelledBy = Set(a.cancelledBy, r.user),
        !.cancelledAt = <<"now">>]

\* lines 423-426
CancelMods(a, r) ==
    [NoMods EXCEPT
        !.status = Set(a.status, "cancelled"),
        !.cancelReason = Set(a.cancelReason, r.cancelReason),
        !.cancelledBy = Set(a.cancelledBy, r.user),
        !.cancelledAt = <<"now">>]

----------------------------------------------------------------------------
(* getAppointments, getAppointmentById *)

\* lines 184-197: query.patient and query.doctor, <<>> when the key is not set
queryPatient(r) ==
    IF Role(r.user) = "patient" THEN <<r.user>>
    ELSE IF Role(r.user) = "admin" /\ r.patientId # NULL THEN <<r.patientId>>
    ELSE <<>>

\* query.doctor with the doctorId filter honoured for every role
queryDoctorAnyRole(r) ==
    IF r.doctorId # NULL THEN <<r.doctorId>>
    ELSE IF Role(r.user) = "doctor" THEN <<r.user>>
    ELSE <<>>

queryDoctor(r) ==
    IF Role(r.user) = "patient" THEN <<>>
    ELSE IF Role(r.user) = "doctor" THEN <<r.user>>
    ELSE IF Role(r.user) = "admin" /\ r.doctorId # NULL THEN <<r.doctorId>>
    ELSE <<>>

\* lines 184-214: the ids Appointment.find(query) returns
getAppointmentsFind(store, r) ==
    {i \in Ids(store) :
        /\ queryPatient(r) # <<>> => store[i].patient = queryPatient(r)[1]
        /\ queryDoctor(r) # <<>> => store[i].doctor = queryDoctor(r)[1]
        /\ r.status # NULL => store[i].status = r.status
        /\ r.startDate # NULL => Ge(store[i].appointmentDate, newDate(r.startDate))
        /\ r.endDate # NULL => Le(store[i].appointmentDate, newDate(r.endDate))}

\* lines 233-255
GetByIdChecks(store, r) ==
    IF ~Exists(store, r.id) THEN "NotFound404"
    ELSE IF \/ Role(r.user) = "patient" /\ store[r.id].patient # r.user
            \/ Role(r.user) = "doctor" /\ store[r.id].doctor # r.user
         THEN "AccessDenied403"
    ELSE "Get200"

----------------------------------------------------------------------------
(* createVisitReport (analyticsController.js) *)

\* route guard and lines 441-468
VisitChecks(store, reps, r) ==
    IF ~authorize({"doctor", "admin"}, r.user) THEN "Forbidden403"
    ELSE IF ~Exists(store, r.id) THEN "NotFound404"
    ELSE IF Role(r.user) = "doctor" /\ store[r.id].doctor # r.user THEN "AccessDenied403"
    ELSE IF r.id \in reps THEN "ReportExists400"
    ELSE "ok"

\* lines 488-489
VisitMods(a) == [NoMods EXCEPT !.status = Set(a.status, "completed")]

----------------------------------------------------------------------------
(* What a handler does after its write: createAuditLog, sendAppointmentEmail *)
(* and io.to(room).emit, each call an attempt.  `who` is the audit actor,  *)
(* the user whose address the email goes to (NULL when the address read is *)
(* undefined) or the user whose room the event goes to.                    *)

AuditAttempt(userId, action, resourceId) ==
    [kind |-> "audit", who |-> userId, what |-> action, id |-> resourceId]
EmailAttempt(to, subject, id) ==
    [kind |-> "email", who |-> to, what |-> subject, id |-> id]
EmitAttempt(room, event, id) ==
    [kind |-> "emit", who |-> room, what |-> event, id |-> id]

\* appointmentController.js lines 119-161: a is the created appointment,
\* populated with the email of patient and doctor
CreateEffects(r, a, id) ==
    <<AuditAttempt(r.user, "CREATE_APPOINTMENT", id),
      EmailAttempt(a.patient, "Appointment Scheduled", id),
      EmailAttempt(a.doctor, "New Appointment", id),
      EmitAttempt(r.doctorId, "new_appointment", id),
      EmitAttempt(createPatientId(r), "appointment_update", id)>>

\* lines 330-369: the email goes to the patient alone, and only if the body
\* carries a status
UpdateEffects(r, a, id) ==
    <<AuditAttempt(r.user, "UPDATE_APPOINTMENT", id),
      EmitAttempt(a.patient, "appointment_update", id),
      EmitAttempt(a.doctor, "appointment_update", id)>>
    \o (IF r.status # NULL
        THEN <<EmailAttempt(a.patient, "Appointment Updated", id)>>
        ELSE <<>>)

\* lines 431-479: the doctor is populated without email (line 433), so the
\* second email is sent to appointment.doctor.email = undefined
CancelEffects(r, a, id) ==
    <<AuditAttempt(r.user, "CANCEL_APPOINTMENT", id),
      EmitAttempt(a.patient, "appointment_cancelled", id),
      EmitAttempt(a.doctor, "appointment_cancelled", id),
      EmailAttempt(a.patient, "Appointment Cancelled", id),
      EmailAttempt(NULL, "Appointment Cancelled", id)>>

\* analyticsController.js line 499
VisitEffects(r, id) == <<AuditAttempt(r.user, "CREATE_VISIT_REPORT", id)>>

\* the attempts made whatever the response is
FxOfAnyResponse(response, success, effects) == effects

\* the attempts and the body of a response: those of the success path
FxOf(response, success, effects) == IF response = success THEN effects ELSE <<>>
DataOf(response, success, id) == IF response = success THEN {id} ELSE {}

\* the room name `user_${userId}` (socket.js line 200, controller lines 154-159)
userRoom(userId) == <<"user_", userId>>

\* io.to(room).emit(event, ...): every socket that is in the room when the
\* emit runs gets the event
Deliveries(members, attempts) ==
    UNION {{<<s, attempts[i].who, attempts[i].what>> :
                i \in {j \in DOMAIN attempts :
                          /\ attempts[j].kind = "emit"
                          /\ userRoom(attempts[j].who) \in members[s]}} :
           s \in DOMAIN members}

----------------------------------------------------------------------------
(* The writes of the handlers, as results [appts, resp] *)

\* an insert that runs the conflict loop again, in one step with the write
InsertResultRechecked(store, r) ==
    IF Conflicting(store, r) # {}
    THEN [appts |-> store, resp |-> "Conflict409"]
    ELSE IF DuplicateKey(store, NewAppointment(r), 0)
    THEN [appts |-> store, resp |-> "Error"]
    ELSE [appts |-> Append(store, NewAppointment(r)), resp |-> "Created201"]

\* Appointment.create and the 201 (appointmentController.js lines 103-169)
InsertResult(store, r) ==
    IF DuplicateKey(store, NewAppointment(r), 0)
    THEN [appts |-> store, resp |-> "Error"]
    ELSE [appts |-> Append(store, NewAppointment(r)), resp |-> "Created201"]

\* appointment.save() and the success response; a thrown error goes to next(error)
SaveOutcome(store, id, m, success) ==
    [appts |-> Saved(store, id, m),
     resp |-> IF SaveResult(store, id, m) \in {"ok", "noop"} THEN success ELSE "Error"]

----------------------------------------------------------------------------
(* Requests *)

CreateRequest(user, doctorId, patientId, appointmentDate, appointmentTime, duration, reason) ==
    [user |-> user, doctorId |-> doctorId, patientId |-> patientId,
     appointmentDate |-> appointmentDate, appointmentTime |-> appointmentTime,
     duration |-> duration, reason |-> reason]

\* bookings that pass the guards
CreateCore ==
    [user : {"p1", "a1"}, doctorId : {"d1"}, patientId : {NULL, "p2"},
     appointmentDate : {"2025-06-01"}, appointmentTime : {"10:00", "10:30"},
     duration : {<<>>}, reason : {"checkup"}]

\* requests the guards turn away
CreateEdge ==
    {CreateRequest("d1", "d1", NULL, "2025-06-01", "10:00", <<>>, "checkup"),
     CreateRequest("p1", NULL, NULL, "2025-06-01", "10:00", <<>>, "checkup"),
     CreateRequest("p1", "d1", NULL, NULL, "10:00", <<>>, "checkup"),
     CreateRequest("p1", "d1", NULL, "2025-06-01", NULL, <<>>, "checkup"),
     CreateRequest("p1", "d1", NULL, "2025-06-01", "10:00", <<>>, NULL),
     CreateRequest("p1", "p2", NULL, "2025-06-01", "10:00", <<>>, "checkup"),
     CreateRequest("p1", NoUser, NULL, "2025-06-01", "10:00", <<>>, "checkup"),
     CreateRequest("a1", "d1", NoUser, "2025-06-01", "10:00", <<>>, "checkup"),
     CreateRequest("a1", "d1", "d2", "2025-06-01", "10:00", <<>>, "checkup"),
     CreateRequest("a1", NoUser, NoUser, "2025-06-01", "10:00", <<>>, NULL),
     CreateRequest("a1", NoUser, NoUser, "2025-06-01", "10:00", <<>>, "checkup")}

CreateReqs == CreateCore \cup CreateEdge

UpdateRequest(user, id, appointmentDate, appointmentTime, status, notes) ==
    [user |-> user, id |-> id, appointmentDate |-> appointmentDate,
     appointmentTime |-> appointmentTime, status |-> status, notes |-> notes]

UpdateReqs ==
    [user : {"a1", "d1"}, id : 1..MaxAppts,
     appointmentDate : {NULL}, appointmentTime : {NULL},
     status : {"scheduled", "completed", "cancelled"}, notes : {NULL}]
    \cup {UpdateRequest(u, id, NULL, NULL, "completed", NULL) :
            u \in {"d2", "p1"}, id \in 1..MaxAppts}
    \cup {UpdateRequest("d1", MaxAppts + 1, NULL, NULL, "completed", NULL),
          UpdateRequest("a1", 1, NULL, NULL, "archived", NULL)}

CancelReqs ==
    [user : {"p1", "p2", "d1", "d2", "a1"}, id : 1..MaxAppts, cancelReason : {"r1"}]
    \cup [user : {"p1"}, id : 1..(MaxAppts + 1), cancelReason : {NULL}]

VisitReqs == [user : {"d1", "d2", "a1", "p1"}, id : 1..MaxAppts]
             \cup [user : {"d1"}, id : {MaxAppts + 1}]

----------------------------------------------------------------------------
(* Requests handled one at a time: each handler runs from its first line   *)
(* to its response before the next request is taken.                       *)

Init ==
    /\ appts = <<>>
    /\ reports = {}
    /\ pending = EmptyBag
    /\ resp = NULL
    /\ fx = <<>>
    /\ data = {}
    /\ rooms = <<>>
    /\ received = {}
    /\ calc = NULL

createAppointment(r, capA) ==
    LET out == CreateChecks(appts, r)
        id == Len(appts) + 1
        res == InsertResult(appts, r)
    IN /\ IF out = "ok"
          THEN /\ Len(appts) < capA
               /\ appts' = res.appts
               /\ resp' = res.resp
          ELSE /\ resp' = out
               /\ UNCHANGED appts
       /\ fx' = FxOf(resp', "Created201", CreateEffects(r, NewAppointment(r), id))
       /\ data' = DataOf(resp', "Created201", id)
       /\ received' = received \cup Deliveries(rooms, fx')
       /\ UNCHANGED <<reports, pending, rooms, calc>>

updateAppointment(r) ==
    LET out == UpdateChecks(appts, r)
    IN /\ IF out = "ok"
          THEN LET res == SaveOutcome(appts, r.id, UpdateMods(appts[r.id], r), "Updated200")
               IN /\ appts' = res.appts
                  /\ resp' = res.resp
                  /\ fx' = FxOf(res.resp, "Updated200", UpdateEffects(r, appts[r.id], r.id))
                  /\ data' = DataOf(res.resp, "Updated200", r.id)
          ELSE /\ resp' = out
               /\ fx' = <<>>
               /\ data' = {}
               /\ UNCHANGED appts
       /\ received' = received \cup Deliveries(rooms, fx')
       /\ UNCHANGED <<reports, pending, rooms, calc>>

cancelAppointment(r) ==
    LET out == CancelChecks(appts, r)
    IN /\ IF out = "ok"
          THEN LET res == SaveOutcome(appts, r.id, CancelMods(appts[r.id], r), "Cancelled200")
               IN /\ appts' = res.appts
                  /\ resp' = res.resp
                  /\ fx' = FxOf(res.resp, "Cancelled200", CancelEffects(r, appts[r.id], r.id))
                  /\ data' = DataOf(res.resp, "Cancelled200", r.id)
          ELSE /\ resp' = out
               /\ fx' = <<>>
               /\ data' = {}
               /\ UNCHANGED appts
       /\ received' = received \cup Deliveries(rooms, fx')
       /\ UNCHANGED <<reports, pending, rooms, calc>>

createVisitReport(r) ==
    LET out == VisitChecks(appts, reports, r)
    IN /\ IF out = "ok"
          THEN LET res == SaveOutcome(appts, r.id, VisitMods(appts[r.id]), "ReportCreated201")
               IN /\ reports' = reports \cup {r.id}
                  /\ appts' = res.appts
                  /\ resp' = res.resp
                  /\ fx' = FxOf(res.resp, "ReportCreated201", VisitEffects(r, r.id))
                  /\ data' = DataOf(res.resp, "ReportCreated201", r.id)
          ELSE /\ resp' = out
               /\ fx' = <<>>
               /\ data' = {}
               /\ UNCHANGED <<appts, reports>>
       /\ received' = received \cup Deliveries(rooms, fx')
       /\ UNCHANGED <<pending, rooms, calc>>

Next ==
    \/ \E r \in CreateReqs : createAppointment(r, MaxAppts)
    \/ \E r \in UpdateReqs : updateAppointment(r)
    \/ \E r \in CancelReqs : cancelAppointment(r)
    \/ \E r \in VisitReqs : createVisitReport(r)

Spec == Init /\ [][Next]_vars

----------------------------------------------------------------------------
(* Scheduling: requests handled one at a time, with the times, durations   *)
(* and dates the conflict check and the index tell apart.                  *)

SchedCreateReqs ==
    [user : {"p1"}, doctorId : {"d1"}, patientId : {NULL},
     appointmentDate : {"2025-06-01"}, appointmentTime : {"10:00", "10:15", "10:30"},
     duration : {<<>>}, reason : {"checkup"}]
    \cup [user : {"p1"}, doctorId : {"d1"}, patientId : {NULL},
          appointmentDate : {"2025-06-01"}, appointmentTime : {"10:00", "10:15"},
          duration : {<<15>>}, reason : {"checkup"}]
    \cup [user : {"p1"}, doctorId : {"d1"}, patientId : {NULL},
          appointmentDate : {"2025-06-01"}, appointmentTime : {"10:30"},
          duration : {<<-10>>, <<-20>>}, reason : {"checkup"}]
    \cup [user : {"p1"}, doctorId : {"d1"}, patientId : {NULL},
          appointmentDate : {"2025-06-01T12:00:00.000Z", "2025-06-01T00:00:00.000Z"},
          appointmentTime : {"10:00", "10:15"}, duration : {<<30>>}, reason : {"checkup"}]
    \cup {CreateRequest("p1", "d2", NULL, "2025-06-01", "10:00", <<>>, "checkup"),
          CreateRequest("p1", "d1", NULL, "2025-06-01", "10:00 AM", <<>>, "checkup"),
          CreateRequest("p1", "d1", NULL, "2025-06-01", "abc", <<>>, "checkup"),
          CreateRequest("p1", "d1", NULL, "2025-06-01", "10:15", <<0>>, "checkup")}

SchedUpdateReqs ==
    {UpdateRequest("a1", id, NULL, "10:15", NULL, NULL) : id \in 1..MaxSched}
    \cup {UpdateRequest("a1", id, "2025-06-01", NULL, NULL, "n") : id \in 1..MaxSched}
    \cup {UpdateRequest("a1", id, NULL, NULL, st, NULL) :
            id \in 1..MaxSched, st \in {"no-show", "scheduled"}}

SchedCancelReqs == [user : {"p1"}, id : 1..MaxSched, cancelReason : {"r1"}]

SchedNext ==
    \/ \E r \in SchedCreateReqs : createAppointment(r, MaxSched)
    \/ \E r \in SchedUpdateReqs : updateAppointment(r)
    \/ \E r \in SchedCancelReqs : cancelAppointment(r)

SchedSpec == Init /\ [][SchedNext]_vars

----------------------------------------------------------------------------
(* Concurrent requests: a handler's read and its write are separate steps,  *)
(* and other requests run between them.                                    *)

ConcCreateReqs ==
    [user : {"p1"}, doctorId : {"d1"}, patientId : {NULL},
     appointmentDate : {"2025-06-01"}, appointmentTime : {"14:30", "2:30 PM", "14:45"},
     duration : {<<>>}, reason : {"checkup"}]

ConcUpdateReqs == {UpdateRequest("d1", id, NULL, "14:45", NULL, NULL) : id \in 1..MaxConc}

ConcCancelReqs ==
    {[user |-> "p1", id |-> id, cancelReason |-> "r1"] : id \in 1..MaxConc}
    \cup {[user |-> "d1", id |-> id, cancelReason |-> NULL] : id \in 1..MaxConc}

Enter(p) == pending' = pending (+) SetToBag({p})
Leave(p) == pending' = pending (-) SetToBag({p})
InFlight == BagToSet(pending)
PendingCreates ==
    LET creates == {p \in InFlight : p.op = "create"}
        Sum[S \in SUBSET creates] ==
            IF S = {} THEN 0
            ELSE LET p == CHOOSE q \in S : TRUE
                 IN CopiesIn(p, pending) + Sum[S \ {p}]
    IN Sum[creates]

\* createAppointment up to the conflict check (lines 23-100)
CreateBegin(r) ==
    LET out == CreateChecks(appts, r)
    IN IF out = "ok"
       THEN /\ BagCardinality(pending) < MaxPending
            /\ Len(appts) + PendingCreates < MaxConc
            /\ Enter([op |-> "create", req |-> r])
            /\ UNCHANGED <<appts, reports, resp, fx, data, rooms, received, calc>>
       ELSE /\ resp' = out
            /\ fx' = <<>>
            /\ data' = {}
            /\ UNCHANGED <<appts, reports, pending, rooms, received, calc>>

\* Appointment.create and the 201 (lines 103-169)
CreateCommit(p) ==
    /\ p.op = "create"
    /\ Leave(p)
    /\ appts' = InsertResult(appts, p.req).appts
    /\ resp' = InsertResult(appts, p.req).resp
    /\ fx' = FxOf(resp', "Created201",
                  CreateEffects(p.req, NewAppointment(p.req), Len(appts) + 1))
    /\ data' = DataOf(resp', "Created201", Len(appts) + 1)
    /\ received' = received \cup Deliveries(rooms, fx')
    /\ UNCHANGED <<reports, rooms, calc>>

\* updateAppointment up to the assignments (lines 273-319)
UpdateBegin(r) ==
    LET out == UpdateChecks(appts, r)
    IN IF out = "ok"
       THEN /\ BagCardinality(pending) < MaxPending
            /\ Enter([op |-> "update", req |-> r, mods |-> UpdateMods(appts[r.id], r)])
            /\ UNCHANGED <<appts, reports, resp, fx, data, rooms, received, calc>>
       ELSE /\ resp' = out
            /\ fx' = <<>>
            /\ data' = {}
            /\ UNCHANGED <<appts, reports, pending, rooms, received, calc>>

\* appointment.save() and the 200 (lines 321-377)
UpdateCommit(p) ==
    /\ p.op = "update"
    /\ Leave(p)
    /\ appts' = SaveOutcome(appts, p.req.id, p.mods, "Updated200").appts
    /\ resp' = SaveOutcome(appts, p.req.id, p.mods, "Updated200").resp
    /\ fx' = FxOf(resp', "Updated200", UpdateEffects(p.req, appts[p.req.id], p.req.id))
    /\ data' = DataOf(resp', "Updated200", p.req.id)
    /\ received' = received \cup Deliveries(rooms, fx')
    /\ UNCHANGED <<reports, rooms, calc>>

\* cancelAppointment up to the assignments (lines 390-426)
CancelBegin(r) ==
    LET out == CancelChecks(appts, r)
    IN IF out = "ok"
       THEN /\ BagCardinality(pending) < MaxPending
            /\ Enter([op |-> "cancel", req |-> r, mods |-> CancelMods(appts[r.id], r)])
            /\ UNCHANGED <<appts, reports, resp, fx, data, rooms, received, calc>>
       ELSE /\ resp' = out
            /\ fx' = <<>>
            /\ data' = {}
            /\ UNCHANGED <<appts, reports, pending, rooms, received, calc>>

\* appointment.save() and the 200 (lines 428-487)
CancelCommit(p) ==
    /\ p.op = "cancel"
    /\ Leave(p)
    /\ appts' = SaveOutcome(appts, p.req.id, p.mods, "Cancelled200").appts
    /\ resp' = SaveOutcome(appts, p.req.id, p.mods, "Cancelled200").resp
    /\ fx' = FxOf(resp', "Cancelled200", CancelEffects(p.req, appts[p.req.id], p.req.id))
    /\ data' = DataOf(resp', "Cancelled200", p.req.id)
    /\ received' = received \cup Deliveries(rooms, fx')
    /\ UNCHANGED <<reports, rooms, calc>>

ConcNext ==
    \/ \E r \in ConcCreateReqs : CreateBegin(r)
    \/ \E p \in InFlight : CreateCommit(p)
    \/ \E r \in ConcUpdateReqs : UpdateBegin(r)
    \/ \E p \in InFlight : UpdateCommit(p)
    \/ \E r \in ConcCancelReqs : CancelBegin(r)
    \/ \E p \in InFlight : CancelCommit(p)

ConcSpec == Init /\ [][ConcNext]_vars

----------------------------------------------------------------------------
(* Create and cancel only, one request at a time *)

CreateCancelNext ==
    \/ \E r \in SchedCreateReqs : createAppointment(r, MaxSched)
    \/ \E r \in SchedCancelReqs : cancelAppointment(r)

CreateCancelSpec == Init /\ [][CreateCancelNext]_vars

----------------------------------------------------------------------------
(* The handlers of appointmentController.js that write, one request at a    *)
(* time, with the requests of Spec                                         *)

ControllerNext ==
    \/ \E r \in CreateReqs : createAppointment(r, MaxAppts)
    \/ \E r \in UpdateReqs : updateAppointment(r)
    \/ \E r \in CancelReqs : cancelAppointment(r)

ControllerSpec == Init /\ [][ControllerNext]_vars

----------------------------------------------------------------------------
(* Create with update alone, and create with cancel alone, one request at   *)
(* a time, with the requests of Spec                                       *)

CreateUpdateNext ==
    \/ \E r \in CreateReqs : createAppointment(r, MaxAppts)
    \/ \E r \in UpdateReqs : updateAppointment(r)

CreateUpdateSpec == Init /\ [][CreateUpdateNext]_vars

CreateDeleteNext ==
    \/ \E r \in CreateReqs : createAppointment(r, MaxAppts)
    \/ \E r \in CancelReqs : cancelAppointment(r)

CreateDeleteSpec == Init /\ [][CreateDeleteNext]_vars

----------------------------------------------------------------------------
(* The handlers cut at every await: the read, the write, then each awaited   *)
(* createAuditLog and sendAppointmentEmail.  The emits are synchronous: they *)
(* run in the step that reaches them.  A call in flight is a record in      *)
(* `pending`: stage "write" before its write, "after" once it is past it;   *)
(* todo are the attempts still to make, the first being the one awaited;    *)
(* made are the attempts made; failed tells whether one of them failed.     *)

NotifyCreateReqs == {CreateRequest("p1", "d1", NULL, "2025-06-01", "10:00", <<>>, "checkup")}

NotifyUpdateReqs ==
    {UpdateRequest("a1", id, NULL, NULL, "completed", NULL) : id \in 1..MaxNotify}
    \cup {UpdateRequest("d1", id, NULL, NULL, "archived", NULL) : id \in 1..MaxNotify}

NotifyCancelReqs == [user : {"p1"}, id : 1..MaxNotify, cancelReason : {"r1"}]

Success(op) ==
    CASE op = "create" -> "Created201"
      [] op = "update" -> "Updated200"
      [] op = "cancel" -> "Cancelled200"

ChecksOf(op, store, r) ==
    CASE op = "create" -> CreateChecks(store, r)
      [] op = "update" -> UpdateChecks(store, r)
      [] op = "cancel" -> CancelChecks(store, r)

\* the modified paths of the document read (none for a create)
ModsOf(op, store, r) ==
    CASE op = "create" -> NoMods
      [] op = "update" -> UpdateMods(store[r.id], r)
      [] op = "cancel" -> CancelMods(store[r.id], r)

\* Appointment.create or appointment.save() of the call
WriteOf(p, store) ==
    IF p.op = "create" THEN InsertResult(store, p.req)
    ELSE SaveOutcome(store, p.req.id, p.mods, Success(p.op))

WrittenId(p, store) == IF p.op = "create" THEN Len(store) + 1 ELSE p.req.id

EffectsOf(p, store) ==
    CASE p.op = "create" -> CreateEffects(p.req, NewAppointment(p.req), WrittenId(p, store))
      [] p.op = "update" -> UpdateEffects(p.req, store[p.req.id], p.req.id)
      [] p.op = "cancel" -> CancelEffects(p.req, store[p.req.id], p.req.id)

\* the call goes on past a write that threw
ProceedsAnyway(result, success) == TRUE

\* a write that throws goes to catch: the statements after it do not run
Proceeds(result, success) == result = success

\* only createAuditLog catches
CaughtAuditOnly(kind) == kind = "audit"

\* createAuditLog (auditLogger.js lines 20-34) and sendAppointmentEmail
\* (part_014 lines 19-38) catch what the write or the delivery throws
Caught(kind) == kind \in {"audit", "email"}

\* the emits at the head of s: they run without an await in between
RECURSIVE LeadingEmits(_)
LeadingEmits(s) ==
    IF s = <<>> THEN 0
    ELSE IF s[1].kind # "emit" THEN 0
    ELSE 1 + LeadingEmits(Tail(s))

Receive(op, r) ==
    LET out == ChecksOf(op, appts, r)
    IN IF out = "ok"
       THEN /\ BagCardinality(pending) < MaxCalls
            /\ op = "create" => Len(appts) + PendingCreates < MaxNotify
            /\ Enter([op |-> op, req |-> r, mods |-> ModsOf(op, appts, r),
                      stage |-> "write", id |-> 0, committed |-> FALSE,
                      todo |-> <<>>, made |-> <<>>, failed |-> FALSE])
            /\ UNCHANGED <<appts, reports, resp, fx, data, rooms, received, calc>>
       ELSE /\ resp' = out
            /\ fx' = <<>>
            /\ data' = {}
            /\ UNCHANGED <<appts, reports, pending, rooms, received, calc>>

\* the awaited write; on success the call goes on to its first awaited attempt
Write(p) ==
    LET res == WriteOf(p, appts)
    IN /\ p.stage = "write"
       /\ appts' = res.appts
       /\ IF Proceeds(res.resp, Success(p.op))
          THEN /\ pending' = (pending (-) SetToBag({p})) (+)
                       SetToBag({[p EXCEPT !.stage = "after",
                                           !.id = WrittenId(p, appts),
                                           !.committed = (res.resp = Success(p.op)),
                                           !.todo = EffectsOf(p, appts)]})
               /\ UNCHANGED <<resp, fx, data>>
          ELSE /\ Leave(p)
               /\ resp' = res.resp
               /\ fx' = <<>>
               /\ data' = {}
       /\ UNCHANGED <<reports, rooms, received, calc>>

\* the awaited attempt ends (ok or not; live tells whether the socket server
\* delivers) and the handler runs on to its next await
Resume(q, ok, live) ==
    LET k == 1 + LeadingEmits(Tail(q.todo))
    IN /\ q.stage = "after"
       /\ q.todo # <<>>
       /\ IF ok \/ Caught(q.todo[1].kind)
          THEN /\ pending' = (pending (-) SetToBag({q})) (+)
                       SetToBag({[q EXCEPT !.todo = SubSeq(@, k + 1, Len(@)),
                                           !.made = @ \o SubSeq(q.todo, 1, k),
                                           !.failed = @ \/ ~ok \/ (k > 1 /\ ~live)]})
               /\ UNCHANGED <<resp, fx, data>>
          ELSE /\ Leave(q)
               /\ resp' = "Error"
               /\ fx' = q.made \o <<q.todo[1]>>
               /\ data' = {}
       /\ received' = IF (ok \/ Caught(q.todo[1].kind)) /\ live
                      THEN received \cup Deliveries(rooms, SubSeq(q.todo, 1, k))
                      ELSE received
       /\ UNCHANGED <<appts, reports, rooms, calc>>

\* res.status(..).json(..): nothing is awaited any more
Respond(q) ==
    /\ q.stage = "after"
    /\ q.todo = <<>>
    /\ Leave(q)
    /\ resp' = (IF q.committed THEN Success(q.op) ELSE "Error")
    /\ fx' = q.made
    /\ data' = {q.id}
    /\ UNCHANGED <<appts, reports, rooms, received, calc>>

NotifyNext ==
    \/ \E r \in NotifyCreateReqs : Receive("create", r)
    \/ \E r \in NotifyUpdateReqs : Receive("update", r)
    \/ \E r \in NotifyCancelReqs : Receive("cancel", r)
    \/ \E p \in InFlight : Write(p)
    \/ \E q \in InFlight : \E ok, live \in BOOLEAN : Resume(q, ok, live)
    \/ \E q \in InFlight : Respond(q)

NotifySpec == Init /\ [][NotifyNext]_vars

----------------------------------------------------------------------------
(* Reads: GET /api/appointments and GET /api/appointments/:id, between     *)
(* creates for two doctors and three patients and cancels by the admin     *)

ReadCreateReqs ==
    {CreateRequest("p1", "d1", NULL, "2025-06-01", "10:00", <<>>, "checkup"),
     CreateRequest("a1", "d1", "p2", "2025-06-01", "10:30", <<>>, "checkup"),
     CreateRequest("p2", "d2", NULL, "2025-06-02", "10:00", <<>>, "checkup")}

ReadCancelReqs == [user : {"a1"}, id : 1..MaxRead, cancelReason : {"r1"}]

ListReqs ==
    [user : Users, status : {NULL, "scheduled"}, startDate : {NULL},
     endDate : {NULL}, doctorId : {NULL, "d1"}, patientId : {NULL, "p2"}]
    \cup [user : {"a1", "p2"}, status : {NULL}, startDate : {NULL, "2025-06-02"},
          endDate : {NULL, "2025-06-01"}, doctorId : {NULL}, patientId : {NULL}]

GetReqs == [user : Users, id : 1..(MaxRead + 1)]

getAppointments(r) ==
    /\ resp' = "List200"
    /\ data' = getAppointmentsFind(appts, r)
    /\ fx' = <<>>
    /\ UNCHANGED <<appts, reports, pending, rooms, received, calc>>

getAppointmentById(r) ==
    /\ resp' = GetByIdChecks(appts, r)
    /\ data' = DataOf(resp', "Get200", r.id)
    /\ fx' = <<>>
    /\ UNCHANGED <<appts, reports, pending, rooms, received, calc>>

ReadNext ==
    \/ \E r \in ReadCreateReqs : createAppointment(r, MaxRead)
    \/ \E r \in ReadCancelReqs : cancelAppointment(r)
    \/ \E r \in ListReqs : getAppointments(r)
    \/ \E r \in GetReqs : getAppointmentById(r)

ReadSpec == Init /\ [][ReadNext]_vars

----------------------------------------------------------------------------
(* timeToMinutes as a function: one call on the 12-hour text of an hour,   *)
(* a minute and a meridiem, one on the 24-hour text of the same time       *)

Meridiems ==
    {<<"A", "M">>, <<"a", "m">>, <<"A", "m">>, <<"a", "M">>,
     <<"P", "M">>, <<"p", "m">>, <<"P", "m">>, <<"p", "M">>}

Pad2(n) == <<Digits[(n \div 10) + 1], Digits[(n % 10) + 1]>>
Dec(n) == IF n < 10 THEN <<Digits[n + 1]>> ELSE Pad2(n)

\* "2:30 PM"
Format12(h, m, mer) == Dec(h) \o <<":">> \o Pad2(m) \o <<" ">> \o mer

\* "14:30", "09:05" or "9:05"
Format24(h, m, padded) == (IF padded THEN Pad2(h) ELSE Dec(h)) \o <<":">> \o Pad2(m)

IsPM(mer) == mer[1] \in {"P", "p"}

\* the hour of the day of a 12-hour clock reading
Hour24(h, mer) == (h % 12) + (IF IsPM(mer) THEN 12 ELSE 0)

TimeInit ==
    /\ appts = <<>>
    /\ reports = {}
    /\ pending = EmptyBag
    /\ resp = NULL
    /\ fx = <<>>
    /\ data = {}
    /\ rooms = <<>>
    /\ received = {}
    /\ calc \in [hour : 1..12, minute : 0..59, meridiem : Meridiems,
                 padded : BOOLEAN, minutes12 : {<<>>}, minutes24 : {<<>>}]

timeToMinutes12 ==
    /\ calc.minutes12 = <<>>
    /\ calc' = [calc EXCEPT !.minutes12 =
                   <<timeToMinutesText(Format12(calc.hour, calc.minute, calc.meridiem))>>]
    /\ UNCHANGED <<appts, reports, pending, resp, fx, data, rooms, received>>

timeToMinutes24 ==
    /\ calc.minutes24 = <<>>
    /\ calc' = [calc EXCEPT !.minutes24 =
                   <<timeToMinutesText(Format24(Hour24(calc.hour, calc.meridiem),
                                                calc.minute, calc.padded))>>]
    /\ UNCHANGED <<appts, reports, pending, resp, fx, data, rooms, received>>

TimeNext ==
    \/ timeToMinutes12
    \/ timeToMinutes24

TimeSpec == TimeInit /\ [][TimeNext]_vars

----------------------------------------------------------------------------
(* Creates whose appointmentTime is no time of day, next to well-formed    *)
(* ones, and cancels                                                       *)

FormatCreateReqs ==
    [user : {"p1"}, doctorId : {"d1"}, patientId : {NULL},
     appointmentDate : {"2025-06-01"},
     appointmentTime : {"10:00", "2:30 PM", "abc", "25:00", "13:00 PM"},
     duration : {<<>>}, reason : {"checkup"}]

FormatNext ==
    \/ \E r \in FormatCreateReqs : createAppointment(r, MaxSched)
    \/ \E r \in SchedCancelReqs : cancelAppointment(r)

FormatSpec == Init /\ [][FormatNext]_vars

----------------------------------------------------------------------------
(* Creates that differ in time, duration and reason, updates that set the  *)
(* notes and move the appointment, and cancels by a patient and the admin  *)

FrameCreateReqs ==
    {CreateRequest("p1", "d1", NULL, "2025-06-01", "10:00", <<>>, "checkup"),
     CreateRequest("a1", "d2", "p2", "2025-06-02", "14:30", <<15>>, "follow-up")}

FrameUpdateReqs ==
    {UpdateRequest("a1", id, "2025-06-02", "10:15", NULL, "n") : id \in 1..MaxSched}

FrameCancelReqs ==
    [user : {"p1", "a1"}, id : 1..MaxSched, cancelReason : {"r1"}]

FrameNext ==
    \/ \E r \in FrameCreateReqs : createAppointment(r, MaxSched)
    \/ \E r \in FrameUpdateReqs : updateAppointment(r)
    \/ \E r \in FrameCancelReqs : cancelAppointment(r)

FrameSpec == Init /\ [][FrameNext]_vars

----------------------------------------------------------------------------
(* Concurrent creates and cancels: the handlers between their read and     *)
(* their write                                                             *)

RaceNext ==
    \/ \E r \in ConcCreateReqs : CreateBegin(r)
    \/ \E p \in InFlight : CreateCommit(p)
    \/ \E r \in ConcCancelReqs : CancelBegin(r)
    \/ \E p \in InFlight : CancelCommit(p)

RaceSpec == Init /\ [][RaceNext]_vars

----------------------------------------------------------------------------
(* Moves: creates in free slots of one practitioner and updates by the     *)
(* admin and the practitioner that move an appointment in time or date     *)

MoveCreateReqs ==
    {CreateRequest("p1", "d1", NULL, "2025-06-01", "10:00", <<>>, "checkup"),
     CreateRequest("p2", "d1", NULL, "2025-06-01", "10:30", <<>>, "checkup"),
     CreateRequest("p1", "d1", NULL, "2025-06-02", "10:15", <<>>, "checkup")}

MoveUpdateReqs ==
    {UpdateRequest(u, id, NULL, "10:15", NULL, NULL) : u \in {"a1", "d1"}, id \in 1..MaxSched}
    \cup {UpdateRequest("a1", id, "2025-06-01", NULL, NULL, NULL) : id \in 1..MaxSched}
    \cup {UpdateRequest("p1", id, NULL, "10:15", NULL, NULL) : id \in 1..MaxSched}

MoveNext ==
    \/ \E r \in MoveCreateReqs : createAppointment(r, MaxSched)
    \/ \E r \in MoveUpdateReqs : updateAppointment(r)
    \/ \E r \in SchedCancelReqs : cancelAppointment(r)

MoveSpec == Init /\ [][MoveNext]_vars

----------------------------------------------------------------------------
(* The socket server (socket.js): sockets connect with a verified token,   *)
(* join and leave rooms by client message, and get what the controllers    *)
(* emit to the rooms they are in.                                          *)

\* sockets by the user of the token they present (socket.userId)
Sockets == {"s1", "s2"}
SocketUser(s) == IF s = "s1" THEN "p1" ELSE "p2"

\* the room names a client may send
RoomNames == {userRoom("p1"), userRoom("p2"), <<"lobby", "">>}

\* io.on("connection"): socket.join(`user_${socket.userId}`)
connection(s) ==
    /\ s \notin DOMAIN rooms
    /\ rooms' = (s :> {userRoom(SocketUser(s))}) @@ rooms
    /\ UNCHANGED <<appts, reports, pending, resp, fx, data, received, calc>>

\* socket.on("join_room", room): socket.join(room)
join_room(s, room) ==
    /\ s \in DOMAIN rooms
    /\ rooms' = [rooms EXCEPT ![s] = @ \cup {room}]
    /\ UNCHANGED <<appts, reports, pending, resp, fx, data, received, calc>>

\* socket.on("leave_room", room): socket.leave(room)
leave_room(s, room) ==
    /\ s \in DOMAIN rooms
    /\ rooms' = [rooms EXCEPT ![s] = @ \ {room}]
    /\ UNCHANGED <<appts, reports, pending, resp, fx, data, received, calc>>

\* socket.on("disconnect"): the socket is gone from every room
disconnect(s) ==
    /\ s \in DOMAIN rooms
    /\ rooms' = [x \in DOMAIN rooms \ {s} |-> rooms[x]]
    /\ UNCHANGED <<appts, reports, pending, resp, fx, data, received, calc>>

SocketNext ==
    \/ \E s \in Sockets : connection(s)
    \/ \E s \in Sockets, room \in RoomNames : join_room(s, room)
    \/ \E s \in Sockets, room \in RoomNames : leave_room(s, room)
    \/ \E s \in Sockets : disconnect(s)
    \/ \E r \in NotifyCreateReqs : createAppointment(r, MaxNotify)
    \/ \E r \in NotifyCancelReqs : cancelAppointment(r)

SocketSpec == Init /\ [][SocketNext]_vars

----------------------------------------------------------------------------
(* The client (client/src/services/socket.js, pages/Appointments.jsx)      *)

\* SOCKET_EVENTS: the event names the client knows
SOCKET_EVENTS ==
    [APPOINTMENT_CREATED |-> "appointmentCreated",
     APPOINTMENT_UPDATED |-> "appointmentUpdated",
     APPOINTMENT_CANCELLED |-> "appointmentCancelled"]

\* the names the Appointments page passes to useSocketEvent; the callback of
\* each calls fetchAppointments
Subscribed ==
    {SOCKET_EVENTS.APPOINTMENT_CREATED, SOCKET_EVENTS.APPOINTMENT_UPDATED,
     SOCKET_EVENTS.APPOINTMENT_CANCELLED}

----------------------------------------------------------------------------
(* The terms of the properties *)

\* the occupied interval [start, start + duration) of a stored appointment
StartOf(a) == timeToMinutes(a.appointmentTime)
EndOf(a) == Plus(StartOf(a), a.duration)

\* two half-open intervals conflict iff s1 < e2 and s2 < e1
Overlap(s1, e1, s2, e2) == Lt(s1, e2) /\ Lt(s2, e1)

SameDate(i1, i2) == CalendarDay(i1) = CalendarDay(i2)

\* "HH:MM" with HH in 0..23, or "H:MM AM|PM" with H in 1..12
WellFormedTime(t) ==
    LET parts == TimeParts(t)
    IN /\ parts.hours # NaN
       /\ parts.minutes \in 0..59
       /\ IF parts.period = NULL THEN parts.hours \in 0..23
          ELSE parts.hours \in 1..12 /\ toUpperCase(parts.period) \in {"AM", "PM"}

\* the policy table's cancel row
MayCancel(user, a) ==
    \/ Role(user) = "admin"
    \/ Role(user) = "doctor" /\ a.doctor = user
    \/ Role(user) = "patient" /\ a.patient = user

\* the policy table's update row
MayUpdate(user, a) ==
    \/ Role(user) = "admin"
    \/ Role(user) = "doctor" /\ a.doctor = user

\* the responses with status 403
Forbidden == {"Forbidden403", "AccessDenied403"}

\* the failure responses of create, update and cancel
Failures ==
    {"Forbidden403", "AccessDenied403", "Required400", "DoctorNotFound404",
     "PatientNotFound404", "NotFound404", "Conflict409", "AlreadyCancelled400",
     "Error500", "Error"}

\* the audit write attempts among the attempts f
Audits(f) == SelectSeq(f, LAMBDA e : e.kind = "audit")

\* among the attempts f there is one of this kind addressed to user u
Notified(f, kind, u) == \E k \in 1..Len(f) : f[k].kind = kind /\ f[k].who = u

Committed == {"Created201", "Updated200", "Cancelled200"}

\* the policy table's read row
MayRead(user, a) ==
    \/ Role(user) = "admin"
    \/ Role(user) = "doctor" /\ a.doctor = user
    \/ Role(user) = "patient" /\ a.patient = user

DoubleBooked(store) ==
    \E i, j \in Ids(store) :
        /\ i < j
        /\ Active(store[i]) /\ Active(store[j])
        /\ store[i].doctor = store[j].doctor
        /\ SameDate(store[i].appointmentDate, store[j].appointmentDate)
        /\ Overlap(StartOf(store[i]), EndOf(store[i]), StartOf(store[j]), EndOf(store[j]))

\* an active stored appointment other than self (0 for a new one) of doc's
\* doctor on doc's date overlaps doc and starts at another minute
OverlapsDistinctStart(store, doc, self) ==
    \E i \in Ids(store) :
        /\ i # self
        /\ Active(store[i])
        /\ store[i].doctor = doc.doctor
        /\ SameDate(store[i].appointmentDate, doc.appointmentDate)
        /\ StartOf(store[i]) # StartOf(doc)
        /\ Overlap(StartOf(store[i]), EndOf(store[i]), StartOf(doc), EndOf(doc))

----------------------------------------------------------------------------
(* Properties *)

\* C1: in every reachable state, no two stored appointments of the same
\* practitioner and date with status outside {cancelled, no-show} have
\* overlapping intervals.
C1_NoDoubleBooking == ~DoubleBooked(appts)

\* C2: a create request with a well-formed time and a positive duration is
\* answered 409 if and only if some active appointment of the same practitioner
\* and date overlaps the candidate interval (s1 < e2 and s2 < e1).
C2_ConflictIffOverlap ==
    [][\A r \in SchedCreateReqs :
        (/\ createAppointment(r, MaxSched)
         /\ WellFormedTime(r.appointmentTime)
         /\ DurationOrDefault(r.duration) > 0)
        => ((resp' = "Conflict409") <=>
            \E j \in Ids(appts) :
                /\ Active(appts[j])
                /\ appts[j].doctor = r.doctorId
                /\ SameDate(appts[j].appointmentDate, newDate(r.appointmentDate))
                /\ Overlap(timeToMinutes(r.appointmentTime),
                           timeToMinutes(r.appointmentTime) + DurationOrDefault(r.duration),
                           StartOf(appts[j]), EndOf(appts[j])))]_vars

\* C3: when only create and cancel requests occur, one at a time, any two
\* active appointments of the same practitioner and date (each was accepted by
\* the conflict check) have non-overlapping intervals.
C3_AcceptedDoNotOverlap ==
    \A i, j \in Ids(appts) :
        (/\ i # j
         /\ Active(appts[i]) /\ Active(appts[j])
         /\ appts[i].doctor = appts[j].doctor
         /\ SameDate(appts[i].appointmentDate, appts[j].appointmentDate))
        => ~Overlap(StartOf(appts[i]), EndOf(appts[i]), StartOf(appts[j]), EndOf(appts[j]))

C5_IndexRejectsSecond ==
    [][\A p, q \in InFlight :
        (/\ p.op = "create" /\ q.op = "create"
         /\ (p # q \/ CopiesIn(p, pending) > 1)
         /\ p.req.doctorId = q.req.doctorId
         /\ SameDate(newDate(p.req.appointmentDate), newDate(q.req.appointmentDate))
         /\ timeToMinutes(p.req.appointmentTime) = timeToMinutes(q.req.appointmentTime)
         /\ CreateCommit(p)
         /\ resp' = "Created201")
        => DuplicateKey(appts', NewAppointment(q.req), 0)]_vars

\* C6: a cancel request by an authorized principal on an appointment whose
\* status is already cancelled is answered AlreadyCancelled and leaves the
\* appointment (status, cancelReason, cancelledBy, cancelledAt) as it was.
C6_CancelCancelledFails ==
    [][\A r \in CancelReqs :
        (/\ Exists(appts, r.id)
         /\ appts[r.id].status = "cancelled"
         /\ MayCancel(r.user, appts[r.id])
         /\ cancelAppointment(r))
        => /\ resp' = "AlreadyCancelled400"
           /\ appts' = appts]_vars

\* C6 witness: a retry was answered AlreadyCancelled on a cancelled appointment
\* that carries the first cancellation's fields
C6_Witness ==
    /\ resp = "AlreadyCancelled400"
    /\ \E i \in Ids(appts) :
        /\ appts[i].status = "cancelled"
        /\ appts[i].cancelledBy # NULL
        /\ appts[i].cancelledAt # NULL

\* C7: of two concurrent cancel requests for one active appointment exactly one
\* succeeds: a cancel whose write lands on an appointment that is already
\* cancelled is not answered with success.
C7_OneCancelWins ==
    [][\A p \in InFlight :
        (/\ p.op = "cancel"
         /\ CancelCommit(p)
         /\ appts[p.req.id].status = "cancelled")
        => /\ resp' # "Cancelled200"
           /\ appts' = appts]_vars

\* C8: once an appointment's status is cancelled or completed, no later
\* operation changes it.
C8_TerminalStatuses ==
    [][\A i \in Ids(appts) :
        appts[i].status \in {"cancelled", "completed"}
        => appts'[i].status = appts[i].status]_vars

\* C9: for every stored appointment, cancelReason, cancelledBy and cancelledAt
\* are all set if status = cancelled and none of them is set otherwise.
C9_CancelFieldsIffCancelled ==
    \A i \in Ids(appts) :
        IF appts[i].status = "cancelled"
        THEN /\ appts[i].cancelReason # NULL
             /\ appts[i].cancelledBy # NULL
             /\ appts[i].cancelledAt # NULL
        ELSE /\ appts[i].cancelReason = NULL
             /\ appts[i].cancelledBy = NULL
             /\ appts[i].cancelledAt = NULL

\* C10: create succeeds only for a patient booking for themself or an admin
\* booking for another existing patient; a create request by a doctor, or by a
\* patient that names another patient, is answered Forbidden and stores nothing.
C10_CreatePolicy ==
    [][\A r \in CreateReqs :
        createAppointment(r, MaxAppts)
        => /\ (resp' = "Created201" /\ appts' # appts)
                => \/ Role(r.user) = "patient" /\ r.patientId \in {NULL, r.user}
                   \/ Role(r.user) = "admin" /\ Role(r.patientId) = "patient"
           /\ (\/ Role(r.user) = "doctor"
               \/ Role(r.user) = "patient" /\ r.patientId \notin {NULL, r.user})
                => resp' = "Forbidden403" /\ appts' = appts]_vars

\* C11: an update changes the collection only when the caller is an admin or
\* the appointment's doctor; an update by a patient, or by a doctor on another
\* doctor's appointment, is answered 403 and changes nothing.
C11_UpdatePolicy ==
    [][\A r \in UpdateReqs :
        /\ (appts' # appts /\ updateAppointment(r))
            => Exists(appts, r.id) /\ MayUpdate(r.user, appts[r.id])
        /\ ((\/ Role(r.user) = "patient"
              \/ /\ Role(r.user) = "doctor"
                 /\ Exists(appts, r.id)
                 /\ appts[r.id].doctor # r.user)
             /\ updateAppointment(r))
            => resp' \in Forbidden /\ appts' = appts]_vars

\* C11 witness: an update by a doctor who is not the appointment's doctor was
\* answered 403 (create has no such answer) and the appointment is as created
C11_Witness ==
    /\ resp = "AccessDenied403"
    /\ Len(appts) = 1
    /\ appts[1].doctor = "d1"
    /\ appts[1].status = "scheduled"

\* C12: a cancel changes the collection only when the caller is an admin, the
\* appointment's doctor or its patient; a cancel by another doctor or another
\* patient is answered 403 and changes nothing.
C12_CancelPolicy ==
    [][\A r \in CancelReqs :
        /\ (appts' # appts /\ cancelAppointment(r))
            => Exists(appts, r.id) /\ MayCancel(r.user, appts[r.id])
        /\ (Exists(appts, r.id)
             /\ (\/ Role(r.user) = "doctor" /\ appts[r.id].doctor # r.user
                 \/ Role(r.user) = "patient" /\ appts[r.id].patient # r.user)
             /\ cancelAppointment(r))
            => resp' \in Forbidden /\ appts' = appts]_vars

\* C12 witness: a cancel by someone who is neither the patient nor the doctor
\* was answered 403 and the appointment is still scheduled
C12_Witness ==
    /\ resp = "AccessDenied403"
    /\ Len(appts) = 1
    /\ appts[1].status = "scheduled"
    /\ appts[1].cancelledBy = NULL

\* C13: every appointment in the body of a list or by-id response has the
\* requesting patient as its patient or the requesting doctor as its doctor,
\* whatever filters the request carries; only an admin is returned others.
C13_ReadsConfined ==
    [][/\ \A r \in ListReqs :
            getAppointments(r) => \A i \in data' : MayRead(r.user, appts[i])
       /\ \A r \in GetReqs :
            getAppointmentById(r) => \A i \in data' : MayRead(r.user, appts[i])]_vars

\* C13 witness: a list response that returned some scheduled appointments and
\* held back others although no status or date filter excludes them
C13_Witness ==
    /\ resp = "List200"
    /\ data # {}
    /\ data # Ids(appts)
    /\ \A i \in Ids(appts) : appts[i].status = "scheduled" /\ appts[i].appointmentDate = 0

\* C14: create answers with the first check that fails in the order required
\* fields (400), doctor (404), patient (404), conflict (409): an admin's request
\* naming a patient id that is no patient is answered 404, also when its slot
\* overlaps a stored appointment, and a 409 is given only when all three passed.
C14_CreateCheckOrder ==
    [][\A r \in CreateReqs :
        LET missing == \/ r.doctorId = NULL \/ r.appointmentDate = NULL
                       \/ r.appointmentTime = NULL \/ r.reason = NULL
            noDoctor == Role(r.doctorId) # "doctor"
            noPatient == /\ Role(r.user) = "admin" /\ r.patientId # NULL
                         /\ Role(r.patientId) # "patient"
            inOrder == /\ missing => resp' = "Required400"
                       /\ (~missing /\ noDoctor) => resp' = "DoctorNotFound404"
                       /\ (~missing /\ ~noDoctor /\ noPatient) => resp' = "PatientNotFound404"
                       /\ resp' = "Conflict409" => (~missing /\ ~noDoctor /\ ~noPatient)
                       /\ (missing \/ noDoctor \/ noPatient) => appts' = appts
        IN \/ inOrder
           \/ ~(Role(r.user) \in {"patient", "admin"} /\ createAppointment(r, MaxAppts))]_vars

\* C14 witness: a create naming a nonexistent patient was answered 404 while
\* the doctor's 10:00 slot it asks for is taken by an active appointment
C14_Witness ==
    /\ resp = "PatientNotFound404"
    /\ \E i \in Ids(appts) :
        /\ Active(appts[i])
        /\ appts[i].doctor = "d1"
        /\ appts[i].appointmentDate = 0
        /\ appts[i].appointmentTime = "10:00"

\* C15: a create, update or cancel request answered with a failure leaves the
\* appointment collection as it was before the request.
C15_FailureLeavesStore ==
    [][resp' \in Failures => appts' = appts]_vars

\* C15 witness: a create was refused with 409 and the collection holds the one
\* appointment it conflicted with
C15_Witness ==
    /\ resp = "Conflict409"
    /\ Len(appts) = 1
    /\ fx = <<>>

\* C16: a call has made or scheduled audit, email or emit attempts only if its
\* own write succeeded before (for a create the appointment is in the store),
\* and a response that is not a success reports no attempt.
C16_NotifyAfterCommit ==
    /\ \A q \in InFlight :
        (q.made # <<>> \/ q.todo # <<>>)
        => /\ q.committed
           /\ Exists(appts, q.id)
    /\ fx # <<>> => resp \in Committed

\* C16 witness: a cancel in flight has made attempts and the appointment it
\* names is stored as cancelled by its caller
C16_Witness ==
    \E q \in InFlight :
        /\ q.op = "cancel"
        /\ q.made # <<>>
        /\ appts[q.id].status = "cancelled"
        /\ appts[q.id].cancelledBy = q.req.user

\* C17: when an audit write, an email or the live channel fails after a call's
\* write, the store keeps the write, the call goes on, and its response is the
\* success response.
C17_FailuresSwallowed ==
    [][\A q \in InFlight :
        /\ \A ok, live \in BOOLEAN :
            Resume(q, ok, live)
            => /\ appts' = appts
               /\ BagCardinality(pending') = BagCardinality(pending)
               /\ resp' = resp
        /\ Respond(q) => (appts' = appts /\ resp' = Success(q.op))]_vars

\* C17 witness: a committed call has made all its attempts, one of them
\* failed, and its response is next
C17_Witness ==
    \E q \in InFlight :
        /\ q.committed
        /\ q.failed
        /\ q.todo = <<>>
        /\ Len(q.made) >= 4

\* C18: while a call awaits an email delivery attempt, its response can be
\* sent: the response does not wait for the email.
C18_ResponseNotBlockedByEmail ==
    \A q \in InFlight :
        (q.stage = "after" /\ q.todo # <<>> /\ q.todo[1].kind = "email")
        => ENABLED Respond(q)

\* C19: after a committed create, update or cancel, an emit and an email have
\* been attempted for the appointment's doctor and for its patient.
C19_BothPartiesBothChannels ==
    resp \in Committed =>
        \A i \in data :
            /\ Notified(fx, "emit", appts[i].doctor)
            /\ Notified(fx, "emit", appts[i].patient)
            /\ Notified(fx, "email", appts[i].doctor)
            /\ Notified(fx, "email", appts[i].patient)

\* C20: a committed create, update or cancel makes exactly one audit write
\* attempt, with the caller as actor, the action of the operation and the
\* mutated appointment as resource; a request that fails makes none.
C20_OneAuditPerCommit ==
    [][/\ \A r \in CreateReqs :
            \/ Audits(fx') = IF resp' = "Created201"
                              THEN <<AuditAttempt(r.user, "CREATE_APPOINTMENT", Len(appts'))>>
                              ELSE <<>>
            \/ ~createAppointment(r, MaxAppts)
       /\ \A r \in UpdateReqs :
            \/ Audits(fx') = IF resp' = "Updated200"
                              THEN <<AuditAttempt(r.user, "UPDATE_APPOINTMENT", r.id)>>
                              ELSE <<>>
            \/ ~updateAppointment(r)
       /\ \A r \in CancelReqs :
            \/ Audits(fx') = IF resp' = "Cancelled200"
                              THEN <<AuditAttempt(r.user, "CANCEL_APPOINTMENT", r.id)>>
                              ELSE <<>>
            \/ ~cancelAppointment(r)]_vars

\* C20 witness: a cancel was committed and its one audit attempt names the
\* user stored as cancelledBy and the cancelled appointment
C20_Witness ==
    /\ resp = "Cancelled200"
    /\ Len(Audits(fx)) = 1
    /\ \E i \in data :
        /\ appts[i].status = "cancelled"
        /\ Audits(fx)[1] = AuditAttempt(appts[i].cancelledBy, "CANCEL_APPOINTMENT", i)

\* C21: for every hour 1..12, minute 0..59 and meridiem in any letter case,
\* timeToMinutes gives the 12-hour text and the 24-hour text of the same time
\* the same value, and it lies in 0..1439; 12:MM PM gives 720 + MM, 12:MM AM
\* gives MM, and "2:30 PM" and "14:30" give 870.
C21_TwelveAndTwentyFourAgree ==
    LET isPM == IsPM(calc.meridiem)
    IN /\ calc.minutes12 # <<>> =>
           LET got == calc.minutes12[1]
           IN /\ got \in 0..1439
              /\ got = Hour24(calc.hour, calc.meridiem) * 60 + calc.minute
              /\ (calc.hour = 12 /\ isPM) => got = 720 + calc.minute
              /\ (calc.hour = 12 /\ ~isPM) => got = calc.minute
              /\ (calc.hour = 2 /\ calc.minute = 30 /\ isPM) => got = 870
       /\ calc.minutes24 # <<>> =>
           /\ calc.minutes24[1] \in 0..1439
           /\ (Hour24(calc.hour, calc.meridiem) = 14 /\ calc.minute = 30)
              => calc.minutes24[1] = 870
       /\ (calc.minutes12 # <<>> /\ calc.minutes24 # <<>>)
          => calc.minutes12 = calc.minutes24

\* C21 witness: "12:05 pm" and "12:05" were both parsed, to 725
C21_Witness ==
    /\ calc.hour = 12
    /\ calc.minute = 5
    /\ calc.meridiem = <<"p", "m">>
    /\ calc.minutes12 = <<725>>
    /\ calc.minutes24 = <<725>>

\* C22: a create whose appointmentTime is malformed (a field that is no
\* number, an hour outside 0..23 in 24-hour form or outside 1..12 in 12-hour
\* form) is answered InvalidTimeFormat and stores no appointment.
C22_MalformedTimeRejected ==
    [][\A r \in FormatCreateReqs :
        (~WellFormedTime(r.appointmentTime) /\ createAppointment(r, MaxSched))
        => (resp' = "InvalidTimeFormat" /\ appts' = appts)]_vars

\* C23: every stored appointment has a duration greater than zero.
C23_PositiveDuration ==
    \A i \in Ids(appts) : appts[i].duration > 0

\* C24: no step removes an appointment (the stored ids only grow, and a stored
\* appointment keeps its patient and doctor), and a cancel request changes at
\* most status, cancelReason, cancelledBy and cancelledAt of the appointment
\* it names and nothing of any other.
C24_CancelIsNotRemoval ==
    [][/\ Len(appts') >= Len(appts)
       /\ \A r \in FrameCancelReqs :
            cancelAppointment(r) =>
                /\ Len(appts') = Len(appts)
                /\ \A i \in Ids(appts) :
                    LET a == appts[i]
                        b == appts'[i]
                    IN /\ i # r.id => b = a
                       /\ b.patient = a.patient
                       /\ b.doctor = a.doctor
                       /\ b.appointmentDate = a.appointmentDate
                       /\ b.appointmentTime = a.appointmentTime
                       /\ b.duration = a.duration
                       /\ b.reason = a.reason
                       /\ b.notes = a.notes]_vars

\* C24 witness: two appointments are stored, the second was moved and given
\* notes and then cancelled, and it still has its notes, reason, time and
\* duration
C24_Witness ==
    /\ resp = "Cancelled200"
    /\ Len(appts) = 2
    /\ data = {2}
    /\ appts[2].status = "cancelled"
    /\ appts[2].notes = "n"
    /\ appts[2].reason = "follow-up"
    /\ appts[2].appointmentTime = "10:15"
    /\ appts[2].duration = 15

C27_SameCalendarDateCompared ==
    [][\A r \in SchedCreateReqs :
        (/\ WellFormedTime(r.appointmentTime)
         /\ DurationOrDefault(r.duration) > 0
         /\ \E j \in Ids(appts) :
                /\ Active(appts[j])
                /\ appts[j].doctor = r.doctorId
                /\ WellFormedTime(appts[j].appointmentTime)
                /\ appts[j].duration > 0
                /\ SameDate(appts[j].appointmentDate, newDate(r.appointmentDate))
                /\ appts[j].appointmentDate # newDate(r.appointmentDate)
                /\ Overlap(timeToMinutes(r.appointmentTime),
                           timeToMinutes(r.appointmentTime) + DurationOrDefault(r.duration),
                           StartOf(appts[j]), EndOf(appts[j]))
         /\ createAppointment(r, MaxSched))
        => resp' # "Created201"]_vars

\* C28: in every reachable state the doctor of every stored appointment is a
\* user with role doctor and its patient is a user with role patient.
C28_PartiesHaveTheirRoles ==
    \A i \in Ids(appts) :
        /\ Role(appts[i].doctor) = "doctor"
        /\ Role(appts[i].patient) = "patient"

\* C29: every appointment event a socket got was emitted to the room user_<X>
\* of the user X it authenticated as: no join_room or leave_room message
\* makes a socket get the events of another principal.
C29_RoomsArePrivate ==
    \A d \in received : SocketUser(d[1]) = d[2]

\* C30: every appointment event delivered to a connected socket carries a name
\* the client's appointment page subscribed to, so that its callback runs and
\* the page fetches the list again.
C30_EmittedNamesAreSubscribed ==
    \A d \in received : d[3] \in Subscribed

====
